---------------------------- MODULE Spec2Model ----------------------------
(***************************************************************************)
(* A model of the N-up layout engine of MochiMaker (src/src/main.py):      *)
(* the grid chooser choose_auto_grid and the page compositor               *)
(* build_nup_from_multiple.                                                *)
(*                                                                         *)
(* Lengths.  The source computes with floats.  The model computes with     *)
(* exact integers: a length in millimetres is held in tenths of a          *)
(* millimetre, a length in points is held in units of 1/254 pt, so that    *)
(* mm_to_pt (mm / 25.4 * 72) is the exact multiplication by 72.  A         *)
(* quotient such as a cell width is held as a fraction [num, den] and      *)
(* compared by cross multiplication.                                       *)
(***************************************************************************)
EXTENDS Integers, Sequences, FiniteSets, TLC

VARIABLES
  cg,   \* one call of choose_auto_grid: its arguments, loop position, best
  bd,   \* one call of build_nup_from_multiple: its arguments and locals
  ec,   \* one call of estimate_content_clip: its arguments and locals
  sv,   \* one call of MainWindow.save_pdf, with the folder it sees
  mp,   \* the window of MochiMaker.py: Create button, status text, calls of make_pdf
  lw    \* one call of MainWindow.move_up or move_down on the file list

vars == <<cg, bd, ec, sv, mp, lw>>

---------------------------------------------------------------------------
(* Utilities                                                               *)

PT_PER_INCH == 72

\* mm in tenths of a millimetre; the result in units of 1/254 pt.
mm_to_pt(mm) == mm * PT_PER_INCH

\* The paper sizes, in tenths of a millimetre.
sizes_mm ==
  [name \in {"A4", "A3", "Letter"} |->
     CASE name = "A4" -> <<2100, 2970>>
       [] name = "A3" -> <<2970, 4200>>
       [] name = "Letter" -> <<2159, 2794>>]

paper_size_pt(name, landscape) ==
  LET n == IF name \notin DOMAIN sizes_mm THEN "A4" ELSE name
      w_mm == IF landscape THEN sizes_mm[n][2] ELSE sizes_mm[n][1]
      h_mm == IF landscape THEN sizes_mm[n][1] ELSE sizes_mm[n][2]
  IN  <<mm_to_pt(w_mm), mm_to_pt(h_mm)>>

\* A quotient num / den, den > 0, kept exact.
Frac(num, den) == [num |-> num, den |-> den]
FracGE(f, x) == f.num >= x * f.den          \* f >= x, x an integer
FracGT(f, h) == f.num * h.den > h.num * f.den   \* f > h

---------------------------------------------------------------------------
(* Grid chooser                                                            *)

CANDIDATE_GRIDS ==
  << <<1,1>>, <<1,2>>, <<2,1>>, <<2,2>>,
     <<2,3>>, <<3,2>>,
     <<3,3>>,
     <<2,4>>, <<4,2>>,
     <<3,4>>, <<4,3>>,
     <<4,4>> >>

Slots(g) == g[1] * g[2]

\* (usable - (n-1)*gap) / n : the width of a cell of n columns (or the
\* height of a cell of n rows).
CellSize(usable, gap_pt, n) == Frac(usable - (n - 1) * gap_pt, n)

\* Variants of the loop body that a slip in the code would produce.
GridStepNoMax(best, cand, usable_w, usable_h, gap_pt, min_pt) ==
  LET r == cand[1]
      c == cand[2]
      cell_w == CellSize(usable_w, gap_pt, c)
  IN  IF FracGE(cell_w, min_pt)
        THEN IF c > best[2]
               THEN cand
               ELSE IF c = best[2]
                      THEN IF FracGT(cell_w, CellSize(usable_w, gap_pt, best[2]))
                             THEN cand ELSE best
                      ELSE best
        ELSE best

GridStepNoBound(best, cand, usable_w, usable_h, gap_pt, min_pt) ==
  LET r == cand[1]
      c == cand[2]
      cell_w == CellSize(usable_w, gap_pt, c)
  IN  IF r * c > best[1] * best[2]
        THEN cand
        ELSE IF r * c = best[1] * best[2]
               THEN IF FracGT(cell_w, CellSize(usable_w, gap_pt, best[2]))
                      THEN cand ELSE best
               ELSE best

GridStepInverted(best, cand, usable_w, usable_h, gap_pt, min_pt) ==
  LET r == cand[1]
      c == cand[2]
      cell_w == CellSize(usable_w, gap_pt, c)
  IN  IF ~FracGT(cell_w, Frac(min_pt, 1))
        THEN IF r * c > best[1] * best[2]
               THEN cand
               ELSE IF r * c = best[1] * best[2]
                      THEN IF FracGT(cell_w, CellSize(usable_w, gap_pt, best[2]))
                             THEN cand ELSE best
                      ELSE best
        ELSE best

GridStepTieLT(best, cand, usable_w, usable_h, gap_pt, min_pt) ==
  LET r == cand[1]
      c == cand[2]
      cell_w == CellSize(usable_w, gap_pt, c)
  IN  IF FracGE(cell_w, min_pt)
        THEN IF r * c > best[1] * best[2]
               THEN cand
               ELSE IF r * c = best[1] * best[2]
                      THEN IF FracGT(CellSize(usable_w, gap_pt, best[2]), cell_w)
                             THEN cand ELSE best
                      ELSE best
        ELSE best

\* A variant that asks of the cell height what it asks of the cell width.
GridStepHeight(best, cand, usable_w, usable_h, gap_pt, min_pt) ==
  LET r == cand[1]
      c == cand[2]
      cell_w == CellSize(usable_w, gap_pt, c)
      cell_h == CellSize(usable_h, gap_pt, r)
  IN  IF FracGE(cell_w, min_pt) /\ FracGE(cell_h, min_pt)
        THEN IF r * c > best[1] * best[2]
               THEN cand
               ELSE IF r * c = best[1] * best[2]
                      THEN LET bw == CellSize(usable_w, gap_pt, best[2])
                           IN  IF FracGT(cell_w, bw) THEN cand ELSE best
                      ELSE best
        ELSE best

\* One iteration of the loop of choose_auto_grid over candidate cand:
\* the new value of best.
GridStep(best, cand, usable_w, usable_h, gap_pt, min_pt) ==
  LET r == cand[1]
      c == cand[2]
      cell_w == CellSize(usable_w, gap_pt, c)
      cell_h == CellSize(usable_h, gap_pt, r)     \* computed, never read
  IN  IF FracGE(cell_w, min_pt)
        THEN IF r * c > best[1] * best[2]
               THEN cand
               ELSE IF r * c = best[1] * best[2]
                      THEN LET bw == CellSize(usable_w, gap_pt, best[2])
                           IN  IF FracGT(cell_w, bw) THEN cand ELSE best
                      ELSE best
        ELSE best

\* The locals choose_auto_grid computes before its loop.
GridLocals(paper_pt, layout) ==
  LET margin_pt == mm_to_pt(layout.margin_mm)
  IN  [gap_pt   |-> mm_to_pt(layout.gap_mm),
       usable_w |-> paper_pt[1] - 2 * margin_pt,
       usable_h |-> paper_pt[2] - 2 * margin_pt,
       min_pt   |-> mm_to_pt(layout.min_slide_w_mm)]

\* best after the first k candidates.
RECURSIVE GridLoop(_, _, _)
GridLoop(paper_pt, layout, k) ==
  IF k = 0
    THEN <<1, 1>>
    ELSE LET l == GridLocals(paper_pt, layout)
         IN  GridStep(GridLoop(paper_pt, layout, k - 1), CANDIDATE_GRIDS[k],
                      l.usable_w, l.usable_h, l.gap_pt, l.min_pt)

choose_auto_grid(paper_pt, layout) ==
  GridLoop(paper_pt, layout, Len(CANDIDATE_GRIDS))

---------------------------------------------------------------------------
(* The calls of choose_auto_grid that are explored.  The widgets of the    *)
(* main window give margin 0..50 mm, gap 0..30 mm and minimum slide width  *)
(* 30..200 mm; LayoutParams itself checks nothing, so one gap below zero   *)
(* is explored as well (with it and a 50 mm margin on A4 portrait all      *)
(* cell widths are equal).                                                 *)

PaperNames == {"A4", "A3", "Letter", "B5"}
Margins == {0, 100, 500}
Gaps == {-1100, 0, 40, 300}
MinWidths == {300, 400, 500, 600, 900, 1000, 1100, 2000}

Layout(rows, cols, margin, gap, auto, minw) ==
  [rows |-> rows, cols |-> cols, margin_mm |-> margin, gap_mm |-> gap,
   auto_readable |-> auto, min_slide_w_mm |-> minw]

NoBuild == [pc |-> "idle"]
NoGrid == [pc |-> "idle"]
NoClip == [pc |-> "idle"]
NoMake == [pc |-> "idle"]
NoList == [pc |-> "idle"]
NoSave == [pc |-> "idle"]

InitGrid ==
  /\ bd = NoBuild
  /\ mp = NoMake
  /\ lw = NoList
  /\ ec = NoClip
  /\ sv = NoSave
  /\ \E name \in PaperNames, landscape \in BOOLEAN,
        margin \in Margins, gap \in Gaps, minw \in MinWidths :
       cg = [pc       |-> "loop",
             paper_pt |-> paper_size_pt(name, landscape),
             layout   |-> Layout(2, 2, margin, gap, TRUE, minw),
             i        |-> 1,
             best     |-> <<1, 1>>]

\* for r,c in CANDIDATE_GRIDS: one iteration.
GridIter ==
  /\ cg.pc = "loop"
  /\ cg.i <= Len(CANDIDATE_GRIDS)
  /\ LET l == GridLocals(cg.paper_pt, cg.layout)
     IN  cg' = [cg EXCEPT
                  !.best = GridStep(cg.best, CANDIDATE_GRIDS[cg.i],
                                    l.usable_w, l.usable_h, l.gap_pt, l.min_pt),
                  !.i = @ + 1]
  /\ UNCHANGED <<bd, ec, sv, mp, lw>>

\* return best
GridReturn ==
  /\ cg.pc = "loop"
  /\ cg.i > Len(CANDIDATE_GRIDS)
  /\ cg' = [cg EXCEPT !.pc = "returned"]
  /\ UNCHANGED <<bd, ec, sv, mp, lw>>

NextGrid == GridIter \/ GridReturn

SpecGrid == InitGrid /\ [][NextGrid]_vars

---------------------------------------------------------------------------
(* Content-bounds estimator: nonwhite_bbox_pixmap, estimate_content_clip   *)
(*                                                                         *)
(* Coordinates of rectangles are held in half points, so that a page       *)
(* whose size is not a whole number of points can be told from its         *)
(* raster.  A pixmap is [width, height, n, samples]: samples is the flat   *)
(* byte string of the source, samples[i + 1] being its byte i.             *)

Max(a, b) == IF a >= b THEN a ELSE b
Min(a, b) == IF a <= b THEN a ELSE b

\* x points, in half points.
Pt(x) == 2 * x

\* fitz.Rect(x0, y0, x1, y1), and the two operators used on it: + adds
\* coordinate by coordinate, & intersects.
Rect(x0, y0, x1, y1) == [x0 |-> x0, y0 |-> y0, x1 |-> x1, y1 |-> y1]
RectAdd(a, b) == Rect(a.x0 + b.x0, a.y0 + b.y0, a.x1 + b.x1, a.y1 + b.y1)
RectAnd(a, b) ==
  Rect(Max(a.x0, b.x0), Max(a.y0, b.y0), Min(a.x1, b.x1), Min(a.y1, b.y1))

target_dpi == 72

\* inv.transform_rect(r), inv = Matrix(1/zoom, 1/zoom), zoom = target_dpi/72:
\* a rectangle in pixels to the rectangle in half points.
InvTransformRect(r) ==
  Rect((Pt(r.x0) * 72) \div target_dpi, (Pt(r.y0) * 72) \div target_dpi,
       (Pt(r.x1) * 72) \div target_dpi, (Pt(r.y1) * 72) \div target_dpi)

\* min(r, g, b) of three bytes
Min3(r, g, b) == Min(r, Min(g, b))

\* Lines 113-119: for x in range(w), from pixel x of row acc.y on.  row is
\* the slice of line 112, acc holds xmin, ymin, xmax, ymax.
RECURSIVE ScanPixels(_, _, _, _, _)
ScanPixels(acc, row, pix, threshold, x) ==
  IF x >= pix.width
    THEN acc
    ELSE LET ncomp == pix.n
             r == row[x * ncomp + 1]
             g == row[x * ncomp + 2]
             b == row[x * ncomp + 3]
             hit == Min3(r, g, b) < threshold
             a == IF hit
                    THEN [acc EXCEPT
                            !.xmin = IF x < acc.xmin THEN x ELSE @,
                            !.ymin = IF acc.y < acc.ymin THEN acc.y ELSE @,
                            !.xmax = IF x > acc.xmax THEN x ELSE @,
                            !.ymax = IF acc.y > acc.ymax THEN acc.y ELSE @]
                    ELSE acc
         IN  ScanPixels(a, row, pix, threshold, x + 1)

\* Lines 110-112: row y of the pixmap, data[row_start:row_start + w*ncomp].
RowSlice(pix, y) ==
  LET row_start == y * pix.width * pix.n
  IN  SubSeq(pix.samples, row_start + 1, row_start + pix.width * pix.n)

\* A variant that returns Rect(xmin, ymin, xmax, ymax).
BBoxNoPlusOne(acc) ==
  IF acc.xmax < 0 THEN <<>> ELSE <<Rect(acc.xmin, acc.ymin, acc.xmax, acc.ymax)>>

\* Lines 120-122: <<>> for None, else <<the rectangle>>.
BBox(acc) ==
  IF acc.xmax < 0
    THEN <<>>
    ELSE <<Rect(acc.xmin, acc.ymin, acc.xmax + 1, acc.ymax + 1)>>

\* A variant that returns an empty rectangle when no bounding box was
\* found.
ClipRectBlankEmpty(bbox_px, page_rect) ==
  IF bbox_px = <<>>
    THEN Rect(page_rect.x0, page_rect.y0, page_rect.x0, page_rect.y0)
    ELSE RectAnd(RectAdd(InvTransformRect(bbox_px[1]),
                         Rect(Pt(-2), Pt(-2), Pt(2), Pt(2))),
                 page_rect)

\* A variant that returns the expanded rectangle unclipped.
ClipRectNoIntersect(bbox_px, page_rect) ==
  IF bbox_px = <<>>
    THEN page_rect
    ELSE RectAdd(InvTransformRect(bbox_px[1]), Rect(Pt(-2), Pt(-2), Pt(2), Pt(2)))

\* Lines 133-138 of estimate_content_clip.
ClipRect(bbox_px, page_rect) ==
  IF bbox_px = <<>>
    THEN page_rect
    ELSE LET rect_pt == InvTransformRect(bbox_px[1])
             grown == RectAdd(rect_pt, Rect(Pt(-2), Pt(-2), Pt(2), Pt(2)))
         IN  RectAnd(grown, page_rect)

---------------------------------------------------------------------------
(* The calls of estimate_content_clip that are explored: a page of         *)
(* 6.5 x 6 pt, whose raster is 7 x 6 pixels, white but for at most         *)
(* MaxDark pixels, which lie on the edges of the raster or inside it.      *)

MaxDark == 3

PageSizes == {<<13, 12>>}       \* width, height in half points
Thresholds == {0, 245, 255}
Spots == {<<x, y>> : x \in {0, 3, 6}, y \in {0, 2, 3, 5}}
White == <<255, 255, 255>>
Colours == {<<255, 244, 250>>, <<250, 255, 245>>}

\* The raster get_pixmap(matrix=mat, alpha=False) makes of a page of the
\* given size that shows colour[p] at pixel p and white elsewhere: RGB, no
\* alpha (line 105 is not reached), one pixel per started point.
Pixmap(size, colour) ==
  LET w == (size[1] + 1) \div 2
      h == (size[2] + 1) \div 2
  IN  [width |-> w, height |-> h, n |-> 3,
       samples |->
         [i \in 1..(w * h * 3) |->
            LET px == (i - 1) \div 3
                p == <<px % w, px \div w>>
                k == ((i - 1) % 3) + 1
            IN  IF p \in DOMAIN colour THEN colour[p][k] ELSE White[k]]]

PixelsOf(size) ==
  {<<x, y>> : x \in 0..((size[1] + 1) \div 2 - 1), y \in 0..((size[2] + 1) \div 2 - 1)}

\* The subsets of S of at most k elements.
RECURSIVE SubsetsUpTo(_, _)
SubsetsUpTo(S, k) ==
  IF k = 0
    THEN {{}}
    ELSE LET smaller == SubsetsUpTo(S, k - 1)
         IN  smaller \cup {d \cup {p} : d \in smaller, p \in S}

InitClip ==
  /\ cg = NoGrid
  /\ mp = NoMake
  /\ lw = NoList
  /\ bd = NoBuild
  /\ sv = NoSave
  /\ \E size \in PageSizes, threshold \in Thresholds :
       \E dark \in SubsetsUpTo(Spots \cap PixelsOf(size), MaxDark) :
         \E colour \in [dark -> Colours] :
           ec = [pc |-> "raster",
                 page_rect |-> Rect(0, 0, size[1], size[2]),
                 threshold |-> threshold,
                 pix |-> Pixmap(size, colour),
                 failed |-> "none",
                 xmin |-> 0, ymin |-> 0, xmax |-> 0, ymax |-> 0, y |-> 0,
                 bbox_px |-> <<>>,
                 result |-> <<>>]

\* Lines 127-131 and 139-140: get_pixmap; when it raises, the page's
\* rectangle is returned.  Then lines 106-109 of nonwhite_bbox_pixmap.
Rasterize ==
  /\ ec.pc = "raster"
  /\ \/ ec' = [ec EXCEPT !.pc = "scan",
                         !.xmin = ec.pix.width, !.ymin = ec.pix.height,
                         !.xmax = -1, !.ymax = -1, !.y = 0]
     \/ ec' = [ec EXCEPT !.pc = "returned", !.failed = "raster",
                         !.result = <<ec.page_rect>>]
  /\ UNCHANGED <<cg, bd, sv, mp, lw>>

\* Lines 110-124: one row of the scan, or its end.  An exception in the
\* scan makes nonwhite_bbox_pixmap return None wherever it is raised: it is
\* taken at the first row.
ScanRow ==
  /\ ec.pc = "scan"
  /\ \/ /\ ec.y < ec.pix.height
        /\ LET acc == ScanPixels(ec, RowSlice(ec.pix, ec.y), ec.pix, ec.threshold, 0)
           IN  ec' = [acc EXCEPT !.y = @ + 1]
     \/ /\ ec.y >= ec.pix.height
        /\ ec' = [ec EXCEPT !.pc = "clip", !.bbox_px = BBox(ec)]
     \/ /\ ec.y = 0
        /\ ec' = [ec EXCEPT !.pc = "clip", !.failed = "scan", !.bbox_px = <<>>]
  /\ UNCHANGED <<cg, bd, sv, mp, lw>>

\* Lines 133-138: the rectangle returned.
Clip ==
  /\ ec.pc = "clip"
  /\ ec' = [ec EXCEPT !.pc = "returned",
                      !.result = <<ClipRect(ec.bbox_px, ec.page_rect)>>]
  /\ UNCHANGED <<cg, bd, sv, mp, lw>>

NextClip == Rasterize \/ ScanRow \/ Clip

SpecClip == InitClip /\ [][NextClip]_vars

---------------------------------------------------------------------------
(* Page compositor: build_nup_from_multiple                                *)
(*                                                                         *)
(* The call is the record bd.  Its arguments: src_files (a list of paths), *)
(* params, stop_after_pages (<<>> for None, <<k>> for k); fs is the file   *)
(* system the call sees, fs[path] = [ok, pages]: whether fitz.open(path)   *)
(* succeeds and the number of pages of the document.  Its locals keep the  *)
(* names of the source.  handles lists every document fitz.open returned,  *)
(* with the number of close() calls it received.  out is the output        *)
(* document: a sequence of pages, each with the cells placed on it and     *)
(* the footers stamped on it.                                              *)

\* f"{page_idx1} / {total_pages}"
footer_text(page_idx1, total_pages) ==
  ToString(page_idx1) \o " / " \o ToString(total_pages)

\* f"{global_page_index}"
idx_text(global_page_index) == ToString(global_page_index)

\* A variant that stamps the footer whatever the switch says.
draw_page_number_footerAlways(params, page, page_idx1, total_pages) ==
  [page EXCEPT !.footers = Append(@, footer_text(page_idx1, total_pages))]

\* The nested function draw_page_number_footer: the page after the call.
draw_page_number_footer(params, page, page_idx1, total_pages) ==
  IF ~params.draw_page_numbers
    THEN page
    ELSE [page EXCEPT !.footers = Append(@, footer_text(page_idx1, total_pages))]

\* out.new_page(...)
new_page == [cells |-> <<>>, footers |-> <<>>]

\* fitz.open(path) succeeded: a new open handle.
OpenHandle(handles, path) ==
  Append(handles, [path |-> path, open |-> TRUE, closes |-> 0])

\* handle.close()
CloseHandle(handles, h) ==
  [handles EXCEPT ![h] = [@ EXCEPT !.open = FALSE, !.closes = @ + 1]]

\* A variant that creates the first output page before any source page.
StartStepEagerPage(b) ==
  LET paper == paper_size_pt(b.params.paper, b.params.landscape)
      grid == IF b.params.layout.auto_readable
                THEN choose_auto_grid(paper, b.params.layout)
                ELSE <<b.params.layout.rows, b.params.layout.cols>>
      l == GridLocals(paper, b.params.layout)
  IN  [b EXCEPT !.pc = "count",
                !.rows = grid[1],
                !.cols = grid[2],
                !.cell_w = CellSize(l.usable_w, l.gap_pt, grid[2]),
                !.cell_h = CellSize(l.usable_h, l.gap_pt, grid[1]),
                !.total_slots = grid[1] * grid[2],
                !.slot_used = 0,
                !.out = <<new_page>>,
                !.out_page = 1,
                !.global_page_index = 0,
                !.total_input_pages = 0,
                !.out_pages_created = 1,
                !.fi = 1]

\* A variant that takes rows and cols from the layout whatever
\* auto_readable says.
StartStepFixedGrid(b) ==
  LET paper == paper_size_pt(b.params.paper, b.params.landscape)
      grid == <<b.params.layout.rows, b.params.layout.cols>>
      l == GridLocals(paper, b.params.layout)
  IN  [b EXCEPT !.pc = "count",
                !.rows = grid[1],
                !.cols = grid[2],
                !.cell_w = CellSize(l.usable_w, l.gap_pt, grid[2]),
                !.cell_h = CellSize(l.usable_h, l.gap_pt, grid[1]),
                !.total_slots = grid[1] * grid[2],
                !.slot_used = 0,
                !.out_page = 0,
                !.global_page_index = 0,
                !.total_input_pages = 0,
                !.out_pages_created = 0,
                !.fi = 1]

\* Lines 151-172, 207: the locals before the loops.
StartStep(b) ==
  LET paper == paper_size_pt(b.params.paper, b.params.landscape)
      grid == IF b.params.layout.auto_readable
                THEN choose_auto_grid(paper, b.params.layout)
                ELSE <<b.params.layout.rows, b.params.layout.cols>>
      l == GridLocals(paper, b.params.layout)
  IN  [b EXCEPT !.pc = "count",
                !.rows = grid[1],
                !.cols = grid[2],
                !.cell_w = CellSize(l.usable_w, l.gap_pt, grid[2]),
                !.cell_h = CellSize(l.usable_h, l.gap_pt, grid[1]),
                !.total_slots = grid[1] * grid[2],
                !.slot_used = 0,
                !.out_page = 0,
                !.global_page_index = 0,
                !.total_input_pages = 0,
                !.out_pages_created = 0,
                !.fi = 1]

\* Lines 193-199: one iteration of the counting loop (with fitz.open(path)
\* as d: total_input_pages += len(d); any exception is passed over), or
\* the end of the loop.
CountStep(b) ==
  IF b.fi > Len(b.src_files)
    THEN [b EXCEPT !.pc = "open", !.fi = 1]
    ELSE LET path == b.src_files[b.fi]
         IN  IF b.fs[path].ok
               THEN LET hs == OpenHandle(b.handles, path)
                    IN  [b EXCEPT
                           !.handles = CloseHandle(hs, Len(hs)),
                           !.total_input_pages = @ + b.fs[path].pages,
                           !.fi = @ + 1]
               ELSE [b EXCEPT !.fi = @ + 1]

\* A variant that restarts the slot cursor with every document.
OpenStepResetSlot(b) ==
  IF b.fi > Len(b.src_files)
    THEN [b EXCEPT !.pc = "footer", !.total_out = Len(b.out), !.fpi = 0]
    ELSE LET path == b.src_files[b.fi]
         IN  IF b.fs[path].ok
               THEN LET hs == OpenHandle(b.handles, path)
                    IN  [b EXCEPT !.pc = "page", !.handles = hs,
                                  !.src = Len(hs), !.pno = 0, !.slot_used = 0]
               ELSE [b EXCEPT !.fi = @ + 1]

\* A variant that ends the placement loop at a path that does not open
\* (break for continue).
OpenStepBreak(b) ==
  IF b.fi > Len(b.src_files)
    THEN [b EXCEPT !.pc = "footer", !.total_out = Len(b.out), !.fpi = 0]
    ELSE LET path == b.src_files[b.fi]
         IN  IF b.fs[path].ok
               THEN LET hs == OpenHandle(b.handles, path)
                    IN  [b EXCEPT !.pc = "page", !.handles = hs,
                                  !.src = Len(hs), !.pno = 0]
               ELSE [b EXCEPT !.pc = "footer", !.total_out = Len(b.out), !.fpi = 0]

\* Lines 210-215 and 269: the head of the placement loop.  A path that
\* does not open is skipped; after the last path the footer pass begins.
OpenStep(b) ==
  IF b.fi > Len(b.src_files)
    THEN [b EXCEPT !.pc = "footer", !.total_out = Len(b.out), !.fpi = 0]
    ELSE LET path == b.src_files[b.fi]
         IN  IF b.fs[path].ok
               THEN LET hs == OpenHandle(b.handles, path)
                    IN  [b EXCEPT !.pc = "page", !.handles = hs,
                                  !.src = Len(hs), !.pno = 0]
               ELSE [b EXCEPT !.fi = @ + 1]

\* An exception leaves the try block: the finally clause runs with it
\* pending.
Raise(b, what) == [b EXCEPT !.pc = "finally", !.pending = "raise", !.err = what]

\* A variant whose page is full one slot late (> for >=).
PageStepOffByOne(b, fail) ==
  IF b.pno >= b.fs[b.handles[b.src].path].pages
    THEN [b EXCEPT !.pc = "finally", !.pending = "none"]
    ELSE
      LET b1 == IF b.slot_used = 0
                  THEN [b EXCEPT !.out = Append(@, new_page),
                                 !.out_page = Len(b.out) + 1,
                                 !.out_pages_created = @ + 1]
                  ELSE b
          r == b1.slot_used \div b1.cols
          c == b1.slot_used % b1.cols
          clip_rect == IF b1.params.trim_whitespace THEN "content" ELSE "page"
          cell == [path |-> b1.handles[b1.src].path, pno |-> b1.pno,
                   r |-> r, c |-> c, clip |-> clip_rect, label |-> <<>>]
          b2 == [b1 EXCEPT !.out[b1.out_page].cells = Append(@, cell),
                           !.global_page_index = @ + 1]
          b3 == IF b2.params.draw_cell_indices
                  THEN [b2 EXCEPT
                          !.out[b2.out_page].cells[Len(b2.out[b2.out_page].cells)].label =
                             <<idx_text(b2.global_page_index)>>]
                  ELSE b2
          b4 == [b3 EXCEPT !.slot_used = @ + 1]
      IN  IF fail \in {"load_page", "show_pdf_page"}
            THEN Raise(b1, fail)
          ELSE IF fail = "insert_textbox" /\ b2.params.draw_cell_indices
            THEN Raise(b2, fail)
          ELSE IF b4.slot_used > b4.total_slots
            THEN IF b4.stop_after_pages # <<>> /\ Len(b4.out) >= b4.stop_after_pages[1]
                   THEN [b4 EXCEPT !.slot_used = 0,
                                   !.handles = CloseHandle(@, b4.src),
                                   !.total_out = Len(b4.out),
                                   !.fpi = 0,
                                   !.pc = "stop_footer"]
                   ELSE [b4 EXCEPT !.slot_used = 0, !.pno = @ + 1]
          ELSE [b4 EXCEPT !.pno = @ + 1]

\* A variant that labels a cell with the page number within its document.
PageStepLocalIndex(b, fail) ==
  IF b.pno >= b.fs[b.handles[b.src].path].pages
    THEN [b EXCEPT !.pc = "finally", !.pending = "none"]
    ELSE
      LET b1 == IF b.slot_used = 0
                  THEN [b EXCEPT !.out = Append(@, new_page),
                                 !.out_page = Len(b.out) + 1,
                                 !.out_pages_created = @ + 1]
                  ELSE b
          r == b1.slot_used \div b1.cols
          c == b1.slot_used % b1.cols
          clip_rect == IF b1.params.trim_whitespace THEN "content" ELSE "page"
          cell == [path |-> b1.handles[b1.src].path, pno |-> b1.pno,
                   r |-> r, c |-> c, clip |-> clip_rect, label |-> <<>>]
          b2 == [b1 EXCEPT !.out[b1.out_page].cells = Append(@, cell),
                           !.global_page_index = @ + 1]
          b3 == IF b2.params.draw_cell_indices
                  THEN [b2 EXCEPT
                          !.out[b2.out_page].cells[Len(b2.out[b2.out_page].cells)].label =
                             <<idx_text(b2.pno + 1)>>]
                  ELSE b2
          b4 == [b3 EXCEPT !.slot_used = @ + 1]
      IN  IF fail \in {"load_page", "show_pdf_page"}
            THEN Raise(b1, fail)
          ELSE IF fail = "insert_textbox" /\ b2.params.draw_cell_indices
            THEN Raise(b2, fail)
          ELSE IF b4.slot_used >= b4.total_slots
            THEN IF b4.stop_after_pages # <<>> /\ Len(b4.out) >= b4.stop_after_pages[1]
                   THEN [b4 EXCEPT !.slot_used = 0,
                                   !.handles = CloseHandle(@, b4.src),
                                   !.total_out = Len(b4.out),
                                   !.fpi = 0,
                                   !.pc = "stop_footer"]
                   ELSE [b4 EXCEPT !.slot_used = 0, !.pno = @ + 1]
          ELSE [b4 EXCEPT !.pno = @ + 1]

\* Lines 217-264: one iteration of the page loop, or its end.  fail names
\* the call that raises in this iteration ("none": no call does).
PageStep(b, fail) ==
  IF b.pno >= b.fs[b.handles[b.src].path].pages
    THEN [b EXCEPT !.pc = "finally", !.pending = "none"]
    ELSE
      LET b1 == IF b.slot_used = 0
                  THEN [b EXCEPT !.out = Append(@, new_page),
                                 !.out_page = Len(b.out) + 1,
                                 !.out_pages_created = @ + 1]
                  ELSE b
          r == b1.slot_used \div b1.cols
          c == b1.slot_used % b1.cols
          clip_rect == IF b1.params.trim_whitespace THEN "content" ELSE "page"
          cell == [path |-> b1.handles[b1.src].path, pno |-> b1.pno,
                   r |-> r, c |-> c, clip |-> clip_rect, label |-> <<>>]
          b2 == [b1 EXCEPT !.out[b1.out_page].cells = Append(@, cell),
                           !.global_page_index = @ + 1]
          b3 == IF b2.params.draw_cell_indices
                  THEN [b2 EXCEPT
                          !.out[b2.out_page].cells[Len(b2.out[b2.out_page].cells)].label =
                             <<idx_text(b2.global_page_index)>>]
                  ELSE b2
          b4 == [b3 EXCEPT !.slot_used = @ + 1]
      IN  IF fail \in {"load_page", "show_pdf_page"}
            THEN Raise(b1, fail)
          ELSE IF fail = "insert_textbox" /\ b2.params.draw_cell_indices
            THEN Raise(b2, fail)
          ELSE IF b4.slot_used >= b4.total_slots
            THEN IF b4.stop_after_pages # <<>> /\ Len(b4.out) >= b4.stop_after_pages[1]
                   THEN [b4 EXCEPT !.slot_used = 0,
                                   !.handles = CloseHandle(@, b4.src),
                                   !.total_out = Len(b4.out),
                                   !.fpi = 0,
                                   !.pc = "stop_footer"]
                   ELSE [b4 EXCEPT !.slot_used = 0, !.pno = @ + 1]
          ELSE [b4 EXCEPT !.pno = @ + 1]

\* A variant that numbers the footers from 0 (i for i+1).
FooterStepZeroBased(b) ==
  IF b.fpi < b.total_out
    THEN [b EXCEPT
            !.out[b.fpi + 1] =
               draw_page_number_footer(b.params, @, b.fpi, b.total_out),
            !.fpi = @ + 1]
    ELSE IF b.pc = "stop_footer"
           THEN [b EXCEPT !.pc = "finally", !.pending = "return"]
           ELSE [b EXCEPT !.pc = "returned"]

\* Lines 261-264 and 270-274: one iteration of a footer loop, or its end
\* (return out; the return of line 264 is inside the try block).
FooterStep(b) ==
  IF b.fpi < b.total_out
    THEN [b EXCEPT
            !.out[b.fpi + 1] =
               draw_page_number_footer(b.params, @, b.fpi + 1, b.total_out),
            !.fpi = @ + 1]
    ELSE IF b.pc = "stop_footer"
           THEN [b EXCEPT !.pc = "finally", !.pending = "return"]
           ELSE [b EXCEPT !.pc = "returned"]

\* A variant that closes src at the end of the try block, not in a finally
\* clause: an exception passes it by.
FinallyStepLeak(b, close_raises) ==
  LET was_open == b.handles[b.src].open
      b1 == [b EXCEPT !.handles = CloseHandle(@, b.src)]
  IN  IF b.pending = "raise"
        THEN [b EXCEPT !.pc = "raised", !.pending = "none"]
      ELSE IF ~was_open /\ close_raises
        THEN [b1 EXCEPT !.pc = "raised", !.pending = "none", !.err = "close"]
      ELSE IF b.pending = "return"
        THEN [b1 EXCEPT !.pc = "returned", !.pending = "none"]
      ELSE [b1 EXCEPT !.pc = "open", !.fi = @ + 1]

\* A variant that passes over the exception of a page and goes on with the
\* next document.
FinallyStepSwallow(b, close_raises) ==
  LET was_open == b.handles[b.src].open
      b1 == [b EXCEPT !.handles = CloseHandle(@, b.src)]
  IN  IF ~was_open /\ close_raises
        THEN [b1 EXCEPT !.pc = "raised", !.pending = "none", !.err = "close"]
      ELSE IF b.pending = "return"
        THEN [b1 EXCEPT !.pc = "returned", !.pending = "none"]
      ELSE [b1 EXCEPT !.pc = "open", !.pending = "none", !.fi = @ + 1]

\* Lines 265-266: finally: src.close().  close_raises: whether close() on
\* a document that is already closed raises (the library decides).
FinallyStep(b, close_raises) ==
  LET was_open == b.handles[b.src].open
      b1 == [b EXCEPT !.handles = CloseHandle(@, b.src)]
  IN  IF ~was_open /\ close_raises
        THEN [b1 EXCEPT !.pc = "raised", !.pending = "none", !.err = "close"]
      ELSE IF b.pending = "raise"
        THEN [b1 EXCEPT !.pc = "raised", !.pending = "none"]
      ELSE IF b.pending = "return"
        THEN [b1 EXCEPT !.pc = "returned", !.pending = "none"]
      ELSE [b1 EXCEPT !.pc = "open", !.fi = @ + 1]

\* The step the call takes from b, when the page operations behave as
\* fail says and close() on a closed document as close_raises says.
BuildStep(b, fail, close_raises) ==
  CASE b.pc = "start" -> StartStep(b)
    [] b.pc = "count" -> CountStep(b)
    [] b.pc = "open" -> OpenStep(b)
    [] b.pc = "page" -> PageStep(b, fail)
    [] b.pc \in {"footer", "stop_footer"} -> FooterStep(b)
    [] b.pc = "finally" -> FinallyStep(b, close_raises)

\* The call run to its end with no page operation failing and close()
\* never raising.
RECURSIVE RunOK(_)
RunOK(b) ==
  IF b.pc \in {"returned", "raised"} THEN b ELSE RunOK(BuildStep(b, "none", FALSE))

---------------------------------------------------------------------------
(* The calls of build_nup_from_multiple that are explored                  *)

MaxDocs == 3      \* paths in src_files
MaxPages == 2     \* pages of one document
MaxStop == 2      \* stop_after_pages, when given

FileKinds ==
  {[ok |-> FALSE, pages |-> 0]} \cup {[ok |-> TRUE, pages |-> k] : k \in 0..MaxPages}

\* Fixed grids 1x1, 1x2, 2x1, 2x2, and two automatic layouts on A4
\* portrait, which choose_auto_grid resolves to 1x1 and 2x1.
BuildLayouts ==
  {Layout(r, c, 100, 40, FALSE, 900) : r \in 1..2, c \in 1..2}
    \cup {Layout(2, 2, 100, 40, TRUE, m) : m \in {1000, 2000}}

StopValues == {<<>>} \cup {<<k>> : k \in 0..MaxStop}

PageFailures == {"none", "load_page", "show_pdf_page", "insert_textbox"}

BuildCall(src_files, fs, params, stop_after_pages) ==
  [pc |-> "start",
   src_files |-> src_files, fs |-> fs, params |-> params,
   stop_after_pages |-> stop_after_pages,
   rows |-> 0, cols |-> 0, cell_w |-> Frac(0, 1), cell_h |-> Frac(0, 1),
   total_slots |-> 0,
   slot_used |-> 0, out_page |-> 0, global_page_index |-> 0,
   total_input_pages |-> 0, out_pages_created |-> 0,
   out |-> <<>>, handles |-> <<>>,
   fi |-> 0, src |-> 0, pno |-> 0, fpi |-> 0, total_out |-> 0,
   pending |-> "none", err |-> "none"]

Params(layout, trim, pn, ci) ==
  [paper |-> "A4", landscape |-> FALSE, layout |-> layout,
   trim_whitespace |-> trim, trim_threshold |-> 245,
   draw_page_numbers |-> pn, draw_cell_indices |-> ci]

\* Every layout with both annotation switches either way; whitespace
\* trimming on the fixed 2x2 grid.
BuildParamsSet ==
  {Params(layout, FALSE, pn, ci) :
     layout \in BuildLayouts, pn \in BOOLEAN, ci \in BOOLEAN}
    \cup {Params(Layout(2, 2, 100, 40, FALSE, 900), TRUE, pn, ci) :
            pn \in BOOLEAN, ci \in BOOLEAN}

Init ==
  /\ cg = NoGrid
  /\ mp = NoMake
  /\ lw = NoList
  /\ ec = NoClip
  /\ sv = NoSave
  /\ \E n \in 0..MaxDocs :
       \E fs \in [1..n -> FileKinds], params \in BuildParamsSet,
          stop \in StopValues :
         bd = BuildCall([i \in 1..n |-> i], fs, params, stop)

Start ==
  /\ bd.pc = "start"
  /\ bd' = StartStep(bd)
  /\ UNCHANGED <<cg, ec, sv, mp, lw>>

Count ==
  /\ bd.pc = "count"
  /\ bd' = CountStep(bd)
  /\ UNCHANGED <<cg, ec, sv, mp, lw>>

Open ==
  /\ bd.pc = "open"
  /\ bd' = OpenStep(bd)
  /\ UNCHANGED <<cg, ec, sv, mp, lw>>

Page ==
  /\ bd.pc = "page"
  /\ \E fail \in PageFailures : bd' = PageStep(bd, fail)
  /\ UNCHANGED <<cg, ec, sv, mp, lw>>

Footer ==
  /\ bd.pc \in {"footer", "stop_footer"}
  /\ bd' = FooterStep(bd)
  /\ UNCHANGED <<cg, ec, sv, mp, lw>>

Finally ==
  /\ bd.pc = "finally"
  /\ \E close_raises \in BOOLEAN : bd' = FinallyStep(bd, close_raises)
  /\ UNCHANGED <<cg, ec, sv, mp, lw>>

Next == Start \/ Count \/ Open \/ Page \/ Footer \/ Finally

Spec == Init /\ [][Next]_vars

---------------------------------------------------------------------------
(* The calls explored for the choice of the grid: two paths, and layouts   *)
(* with every rows and cols up to MaxGrid, fixed and automatic, on A4      *)
(* portrait.  The automatic ones resolve to 4x2, 1x1 and 2x1.              *)

MaxGrid == 3

\* margin_mm, gap_mm, min_slide_w_mm, in tenths of a millimetre
LayoutMeasures == {<<100, 40, 900>>, <<100, 300, 2000>>, <<500, 40, 600>>}

GridLayouts ==
  {Layout(r, c, m[1], m[2], auto, m[3]) :
     r \in 1..MaxGrid, c \in 1..MaxGrid, m \in LayoutMeasures, auto \in BOOLEAN}

InitLayout ==
  /\ cg = NoGrid
  /\ mp = NoMake
  /\ lw = NoList
  /\ ec = NoClip
  /\ sv = NoSave
  /\ \E fs \in [1..2 -> FileKinds], layout \in GridLayouts, stop \in {<<>>, <<1>>} :
       bd = BuildCall(<<1, 2>>, fs, Params(layout, FALSE, TRUE, TRUE), stop)

SpecLayout == InitLayout /\ [][Next]_vars

---------------------------------------------------------------------------
(* Saving: MainWindow.save_pdf                                             *)
(*                                                                         *)
(* The folder the user picks is seen through the names                     *)
(* <base>_<i>.pdf: files is the set of i at which a regular file exists,   *)
(* dirs the set of i at which a directory has the name.  writes lists the  *)
(* calls of out.save: the name, and whether a file had that name when      *)
(* save was called.  messages lists the message boxes shown: "attention"   *)
(* stands for the title of line 700, "save error" for that of lines 839    *)
(* and 844, "done" for that of line 842.                                   *)

Tries == 1000

\* A variant that takes the first name without looking for a file.
ProbeStepNoTest(s) ==
  IF s.i < Tries
    THEN [s EXCEPT !.pc = "save", !.file_name = s.i + 1]
    ELSE [s EXCEPT !.pc = "done",
                   !.messages = Append(@, <<"warning", "save error">>)]

\* Lines 834-840: one iteration of for i in range(1000), or the else
\* clause of the loop.
ProbeStep(s) ==
  IF s.i < Tries
    THEN LET file_name == s.i + 1
         IN  IF file_name \notin s.files
               THEN [s EXCEPT !.pc = "save", !.file_name = file_name]
               ELSE [s EXCEPT !.i = @ + 1, !.file_name = file_name]
    ELSE [s EXCEPT !.pc = "done",
                   !.messages = Append(@, <<"warning", "save error">>)]

\* Lines 841-844: out.save(file_name) and the message that follows.  ok:
\* whether the write succeeds (it cannot where the name is a directory);
\* partial: whether a failed write leaves a file behind.
WriteStep(s, ok, partial) ==
  LET attempt == [name |-> s.file_name, existed |-> s.file_name \in s.files]
      s1 == [s EXCEPT !.writes = Append(@, attempt)]
  IN  IF ok /\ s.file_name \notin s.dirs
        THEN [s1 EXCEPT !.pc = "done",
                        !.files = @ \cup {s.file_name},
                        !.messages = Append(@, <<"information", "done">>)]
        ELSE [s1 EXCEPT !.pc = "done",
                        !.save_failed = TRUE,
                        !.files = IF partial /\ s.file_name \notin s.dirs
                                    THEN @ \cup {s.file_name} ELSE @,
                        !.messages = Append(@, <<"warning", "save error">>)]

\* The folders explored: the first k names taken, for k up to 2 and for
\* k within 1 of Tries; gaps in the numbering; a directory at a name.
Folders ==
  {[files |-> 1..k, dirs |-> {}] : k \in {0, 1, 2, Tries - 1, Tries}}
    \cup {[files |-> {2}, dirs |-> {}],
          [files |-> {1, 3}, dirs |-> {}],
          [files |-> (1..Tries) \ {3}, dirs |-> {}],
          [files |-> {}, dirs |-> {1}],
          [files |-> {1}, dirs |-> {2}]}

InitSave ==
  /\ cg = NoGrid
  /\ mp = NoMake
  /\ lw = NoList
  /\ bd = NoBuild
  /\ ec = NoClip
  /\ \E has_files \in BOOLEAN, folder \in Folders :
       sv = [pc |-> "start", has_files |-> has_files,
             files0 |-> folder.files, files |-> folder.files, dirs |-> folder.dirs,
             i |-> 0, file_name |-> 0, writes |-> <<>>, messages |-> <<>>,
             save_failed |-> FALSE]

\* Lines 822-824 and 698-701: gather_params; without input files it warns
\* and save_pdf returns.
Gather ==
  /\ sv.pc = "start"
  /\ sv' = IF sv.has_files
             THEN [sv EXCEPT !.pc = "build"]
             ELSE [sv EXCEPT !.pc = "done",
                             !.messages = Append(@, <<"warning", "attention">>)]
  /\ UNCHANGED <<cg, bd, ec, mp, lw>>

\* Lines 826-827 and 843-844: build_nup_from_multiple returns the document
\* or raises; the exception is reported.
Build ==
  /\ sv.pc = "build"
  /\ \E raises \in BOOLEAN :
       sv' = IF raises
               THEN [sv EXCEPT !.pc = "done",
                               !.messages = Append(@, <<"warning", "save error">>)]
               ELSE [sv EXCEPT !.pc = "dialog"]
  /\ UNCHANGED <<cg, bd, ec, mp, lw>>

\* Lines 829-831: the folder dialog; cancelled, save_pdf returns.
ChooseFolder ==
  /\ sv.pc = "dialog"
  /\ \E cancelled \in BOOLEAN :
       sv' = IF cancelled
               THEN [sv EXCEPT !.pc = "done"]
               ELSE [sv EXCEPT !.pc = "loop", !.i = 0]
  /\ UNCHANGED <<cg, bd, ec, mp, lw>>

Probe ==
  /\ sv.pc = "loop"
  /\ sv' = ProbeStep(sv)
  /\ UNCHANGED <<cg, bd, ec, mp, lw>>

Write ==
  /\ sv.pc = "save"
  /\ \E ok \in BOOLEAN, partial \in BOOLEAN : sv' = WriteStep(sv, ok, partial)
  /\ UNCHANGED <<cg, bd, ec, mp, lw>>

NextSave == Gather \/ Build \/ ChooseFolder \/ Probe \/ Write

SpecSave == InitSave /\ [][NextSave]_vars

---------------------------------------------------------------------------
(* Reordering the file list: MainWindow.move_up, MainWindow.move_down      *)
(*                                                                         *)
(* items is the list widget's content, rows are counted from 0 as in the   *)
(* source; items0 is the content when the method was called.               *)

\* list_widget.takeItem(r): the list without its row r.
TakeItem(items, r) ==
  SubSeq(items, 1, r) \o SubSeq(items, r + 2, Len(items))

\* list_widget.insertItem(r, item): item becomes row r.
InsertItem(items, r, item) ==
  SubSeq(items, 1, r) \o <<item>> \o SubSeq(items, r + 1, Len(items))

\* sorted(set(...)), and with reverse=True
RECURSIVE SortedRows(_, _)
SortedRows(rows, reverse) ==
  IF rows = {}
    THEN <<>>
    ELSE LET first == IF reverse
                        THEN CHOOSE r \in rows : \A q \in rows : q <= r
                        ELSE CHOOSE r \in rows : \A q \in rows : r <= q
         IN  <<first>> \o SortedRows(rows \ {first}, reverse)

\* Lines 651-654: the body of the loop of move_up for row r.
MoveUpRow(items, r) ==
  IF r = 0
    THEN items
    ELSE LET item == items[r + 1]
         IN  InsertItem(TakeItem(items, r), r - 1, item)

\* Lines 663-666: the body of the loop of move_down for row r.
MoveDownRow(items, r) ==
  IF r = Len(items) - 1
    THEN items
    ELSE LET item == items[r + 1]
         IN  InsertItem(TakeItem(items, r), r + 1, item)

MaxItems == 4

InitList ==
  /\ cg = NoGrid
  /\ bd = NoBuild
  /\ ec = NoClip
  /\ sv = NoSave
  /\ mp = NoMake
  /\ \E n \in 0..MaxItems, op \in {"move_up", "move_down"} :
       \E selected \in SUBSET (0..(n - 1)) :
         lw = [pc |-> "call", op |-> op,
               items0 |-> [k \in 1..n |-> k], items |-> [k \in 1..n |-> k],
               selected |-> selected, rows |-> <<>>]

\* Lines 647-649 and 659-661: the rows to move; none, the method returns.
MoveRows ==
  /\ lw.pc = "call"
  /\ LET rows == SortedRows(lw.selected, lw.op = "move_down")
     IN  lw' = IF rows = <<>>
                 THEN [lw EXCEPT !.pc = "returned"]
                 ELSE [lw EXCEPT !.pc = "loop", !.rows = rows]
  /\ UNCHANGED <<cg, bd, ec, sv, mp>>

\* Lines 650-654 and 662-666: one iteration of for r in rows.
MoveIter ==
  /\ lw.pc = "loop"
  /\ lw.rows # <<>>
  /\ LET r == Head(lw.rows)
     IN  lw' = [lw EXCEPT
                  !.items = IF lw.op = "move_up"
                              THEN MoveUpRow(@, r) ELSE MoveDownRow(@, r),
                  !.rows = Tail(@)]
  /\ UNCHANGED <<cg, bd, ec, sv, mp>>

\* Lines 655-656 and 667-668: after the loop.
MoveReturn ==
  /\ lw.pc = "loop"
  /\ lw.rows = <<>>
  /\ lw' = [lw EXCEPT !.pc = "returned"]
  /\ UNCHANGED <<cg, bd, ec, sv, mp>>

NextList == MoveRows \/ MoveIter \/ MoveReturn

SpecList == InitList /\ [][NextList]_vars

---------------------------------------------------------------------------
(* The image-to-PDF window: PDFMakerGUI.make_pdf                           *)
(*                                                                         *)
(* enabled is create_button's state, status the text of status_label,      *)
(* title the text of title_edit (a sequence of characters), stack the      *)
(* calls of make_pdf that have not finished, innermost last, log how the   *)
(* finished ones ended.  create_button.clicked is the only caller (line    *)
(* 149); a click reaches the window when no call is under way or at the    *)
(* processEvents() of line 290: the dialogs are modal.                     *)

\* Characters a file name cannot hold (line 271).
Forbidden == {"\\", "/", ":", "*", "?", "\"", "<", ">", "|"}

\* str.strip(): without leading and trailing blanks.
RECURSIVE Strip(_)
Strip(t) ==
  IF t = <<>> THEN t
  ELSE IF Head(t) = " " THEN Strip(Tail(t))
  ELSE IF t[Len(t)] = " " THEN Strip(SubSeq(t, 1, Len(t) - 1))
  ELSE t

\* "".join(c for c in title if c not in r'\/:*?"<>|')
SafeTitle(t) == SelectSeq(t, LAMBDA c : c \notin Forbidden)

\* The names of PAPER_SIZES (lines 14-20).
PAPER_SIZES == {"A4", "B4", "A3", "B5", "A5"}

\* The innermost call, and the window when that call has finished with
\* exit.
Top(m) == m.stack[Len(m.stack)]
At(m, pc) == [m EXCEPT !.stack[Len(m.stack)].pc = pc]
Finish(m, exit) ==
  [m EXCEPT !.stack = SubSeq(@, 1, Len(@) - 1), !.log = Append(@, exit)]

\* Lines 261-274: the checks before the dialog.
CheckStep(m) ==
  LET title == Strip(m.title)
  IN  IF ~m.image_files THEN Finish(m, "no images")
      ELSE IF title = <<>> THEN Finish(m, "no title")
      ELSE IF SafeTitle(title) = <<>> THEN Finish(m, "invalid title")
      ELSE At(m, "dialog")

\* Lines 277-286: the save dialog; chosen: whether a path was given.
DialogStep(m, chosen) ==
  IF chosen THEN At(m, "begin") ELSE Finish(m, "cancelled")

\* A variant that leaves the Create button enabled.
BeginStepNoDisable(m) ==
  [At(m, "events") EXCEPT !.status = "Creating PDF..."]

\* Lines 288-289.
BeginStep(m) ==
  [At(m, "events") EXCEPT !.status = "Creating PDF...", !.enabled = FALSE]

\* Lines 292-347: the try block.  raises: whether the generation or the
\* write raises.
GenerateStep(m, raises) ==
  IF m.paper_name \notin PAPER_SIZES
    THEN [At(m, "finally") EXCEPT !.stack[Len(m.stack)].exit = "invalid paper"]
  ELSE IF raises
    THEN At(m, "except")
  ELSE [At(m, "finally") EXCEPT !.stack[Len(m.stack)].exit = "done"]

\* Lines 349-363: the except clause.  log_raises: whether writing the log
\* raises.
ExceptStep(m, log_raises) ==
  [At(m, "finally") EXCEPT
     !.stack[Len(m.stack)].exit = IF log_raises THEN "log failed" ELSE "failed"]

\* Lines 365-367: the finally clause, and the end of the call.
MakeFinallyStep(m) ==
  Finish([m EXCEPT !.status = "", !.enabled = TRUE], Top(m).exit)

\* Lines 246-250 of reset_all.
ResetStep(m) ==
  [m EXCEPT !.image_files = FALSE, !.title = <<>>, !.status = ""]

MaxCalls == 2

TitleChars == {" ", "?", "a"}
Titles == {<<>>} \cup {<<c>> : c \in TitleChars}
            \cup {<<c, d>> : c \in TitleChars, d \in TitleChars}

\* The window after construction (lines 125, 135), with the inputs the
\* user has made.  The combo box offers the names of PAPER_SIZES (line
\* 87); "Letter" stands for a name outside the table.
InitMake ==
  /\ cg = NoGrid
  /\ bd = NoBuild
  /\ ec = NoClip
  /\ sv = NoSave
  /\ lw = NoList
  /\ \E image_files \in BOOLEAN, title \in Titles, paper_name \in {"A4", "B5", "Letter"} :
       mp = [pc |-> "window", enabled |-> TRUE, status |-> "",
             image_files |-> image_files, title |-> title,
             paper_name |-> paper_name, stack |-> <<>>, log |-> <<>>]

\* A click reaches the window.
AcceptsInput == IF mp.stack = <<>> THEN TRUE ELSE Top(mp).pc = "events"

\* Line 149: a click on the enabled Create button calls make_pdf.
ClickCreate ==
  /\ mp.pc = "window"
  /\ AcceptsInput
  /\ mp.enabled
  /\ Len(mp.stack) + Len(mp.log) < MaxCalls
  /\ mp' = [mp EXCEPT !.stack = Append(@, [pc |-> "check", exit |-> "none"])]
  /\ UNCHANGED <<cg, bd, ec, sv, lw>>

\* Line 148: a click on the Reset button calls reset_all.
ClickReset ==
  /\ mp.pc = "window"
  /\ AcceptsInput
  /\ mp' = ResetStep(mp)
  /\ UNCHANGED <<cg, bd, ec, sv, lw>>

Check ==
  /\ mp.pc = "window" /\ mp.stack # <<>> /\ Top(mp).pc = "check"
  /\ mp' = CheckStep(mp)
  /\ UNCHANGED <<cg, bd, ec, sv, lw>>

Dialog ==
  /\ mp.pc = "window" /\ mp.stack # <<>> /\ Top(mp).pc = "dialog"
  /\ \E chosen \in BOOLEAN : mp' = DialogStep(mp, chosen)
  /\ UNCHANGED <<cg, bd, ec, sv, lw>>

Begin ==
  /\ mp.pc = "window" /\ mp.stack # <<>> /\ Top(mp).pc = "begin"
  /\ mp' = BeginStep(mp)
  /\ UNCHANGED <<cg, bd, ec, sv, lw>>

\* Line 290: processEvents() returns.
Events ==
  /\ mp.pc = "window" /\ mp.stack # <<>> /\ Top(mp).pc = "events"
  /\ mp' = At(mp, "generate")
  /\ UNCHANGED <<cg, bd, ec, sv, lw>>

Generate ==
  /\ mp.pc = "window" /\ mp.stack # <<>> /\ Top(mp).pc = "generate"
  /\ \E raises \in BOOLEAN : mp' = GenerateStep(mp, raises)
  /\ UNCHANGED <<cg, bd, ec, sv, lw>>

Except ==
  /\ mp.pc = "window" /\ mp.stack # <<>> /\ Top(mp).pc = "except"
  /\ \E log_raises \in BOOLEAN : mp' = ExceptStep(mp, log_raises)
  /\ UNCHANGED <<cg, bd, ec, sv, lw>>

MakeFinally ==
  /\ mp.pc = "window" /\ mp.stack # <<>> /\ Top(mp).pc = "finally"
  /\ mp' = MakeFinallyStep(mp)
  /\ UNCHANGED <<cg, bd, ec, sv, lw>>

NextMake ==
  \/ ClickCreate \/ ClickReset \/ Check \/ Dialog \/ Begin
  \/ Events \/ Generate \/ Except \/ MakeFinally

SpecMake == InitMake /\ [][NextMake]_vars

---------------------------------------------------------------------------
(* Claims about the grid chooser (checked under SpecGrid)                  *)

Candidates == {CANDIDATE_GRIDS[k] : k \in 1..Len(CANDIDATE_GRIDS)}
CandIndex(g) == CHOOSE k \in 1..Len(CANDIDATE_GRIDS) : CANDIDATE_GRIDS[k] = g

\* Stated from the contract, not from the loop: the cell width of a grid
\* for given arguments, and whether it meets the minimum.
WidthOf(paper_pt, layout, g) ==
  Frac(paper_pt[1] - 2 * mm_to_pt(layout.margin_mm)
         - (g[2] - 1) * mm_to_pt(layout.gap_mm), g[2])
QualifiesFor(paper_pt, layout, g) ==
  FracGE(WidthOf(paper_pt, layout, g), mm_to_pt(layout.min_slide_w_mm))

CellW(g) == WidthOf(cg.paper_pt, cg.layout, g)
Qualifies(g) == QualifiesFor(cg.paper_pt, cg.layout, g)
Qualifying == {g \in Candidates : Qualifies(g)}
SameWidth(g, h) == ~FracGT(CellW(g), CellW(h)) /\ ~FracGT(CellW(h), CellW(g))

\* C7: the grid returned is a candidate; when some candidate's cell width
\* meets the minimum, the grid returned is such a candidate and no such
\* candidate has more slots; when none does, the grid returned is 1x1.
C7_MaxSlots ==
  cg.pc = "returned" =>
    /\ cg.best \in Candidates
    /\ Qualifying # {} =>
         /\ cg.best \in Qualifying
         /\ \A g \in Qualifying : Slots(g) <= Slots(cg.best)
    /\ Qualifying = {} => cg.best = <<1, 1>>

\* a call where 4x2 is returned: candidates of fewer slots qualify and
\* candidates of more slots do not
C7_Witness ==
  /\ cg.pc = "returned"
  /\ cg.best = <<4, 2>>
  /\ <<2, 2>> \in Qualifying
  /\ <<4, 3>> \notin Qualifying

\* C8: the cell width of the grid returned is at least the minimum cell
\* width, unless no candidate qualifies, and then the grid returned is 1x1.
C8_GridBound ==
  cg.pc = "returned" =>
    \/ FracGE(CellW(cg.best), mm_to_pt(cg.layout.min_slide_w_mm))
    \/ (Qualifying = {} /\ cg.best = <<1, 1>>)

\* a call where no candidate qualifies and 1x1 is returned with a cell
\* narrower than the minimum
C8_Witness ==
  /\ cg.pc = "returned"
  /\ Qualifying = {}
  /\ cg.best = <<1, 1>>
  /\ ~FracGE(CellW(<<1, 1>>), mm_to_pt(cg.layout.min_slide_w_mm))

\* C9: for the same paper, margin and gap, a larger minimum cell width
\* never gives more slots: every smaller minimum gives at least the slot
\* count returned, every larger one at most.
C9_Monotone ==
  cg.pc = "returned" =>
    \A m \in MinWidths :
      LET other == choose_auto_grid(cg.paper_pt,
                                    [cg.layout EXCEPT !.min_slide_w_mm = m])
      IN  /\ m <= cg.layout.min_slide_w_mm => Slots(other) >= Slots(cg.best)
          /\ m >= cg.layout.min_slide_w_mm => Slots(other) <= Slots(cg.best)

\* a call whose slot count is strictly below that of a smaller minimum and
\* strictly above that of a larger one
C9_Witness ==
  /\ cg.pc = "returned"
  /\ \E m1, m2 \in MinWidths :
       /\ m1 < cg.layout.min_slide_w_mm
       /\ cg.layout.min_slide_w_mm < m2
       /\ Slots(choose_auto_grid(cg.paper_pt,
             [cg.layout EXCEPT !.min_slide_w_mm = m1])) > Slots(cg.best)
       /\ Slots(choose_auto_grid(cg.paper_pt,
             [cg.layout EXCEPT !.min_slide_w_mm = m2])) < Slots(cg.best)

\* The qualifying candidates among the first cg.i - 1, and those of them
\* with the most slots.
SeenQualifying == {g \in Qualifying : CandIndex(g) < cg.i}
SeenTop == {g \in SeenQualifying :
              \A h \in SeenQualifying : Slots(h) <= Slots(g)}

\* Throughout the loop best is, among the qualifying candidates seen with
\* the most slots, one of the largest cell width, and the earliest of those.
C10_BestOfTies ==
  (cg.pc \in {"loop", "returned"} /\ SeenQualifying # {}) =>
    /\ cg.best \in SeenTop
    /\ \A g \in SeenTop :
         /\ ~FracGT(CellW(g), CellW(cg.best))
         /\ SameWidth(g, cg.best) => CandIndex(cg.best) <= CandIndex(g)

\* An iteration over a candidate of the slot count of best replaces best
\* only when the candidate qualifies with a strictly larger cell width,
\* and then it does.
C10_TieStep ==
  (cg.pc = "loop" /\ cg.i <= Len(CANDIDATE_GRIDS)
     /\ Slots(CANDIDATE_GRIDS[cg.i]) = Slots(cg.best)
     /\ CANDIDATE_GRIDS[cg.i] # cg.best) =>
    LET cand == CANDIDATE_GRIDS[cg.i]
    IN  /\ cg'.best \in {cand, cg.best}
        /\ cg'.best = cand <=>
             (Qualifies(cand) /\ FracGT(CellW(cand), CellW(cg.best)))

\* C10: among the qualifying candidates that share the maximal slot count
\* the one of the largest cell width is kept; a later candidate of equal
\* slot count replaces best only when its cell width is strictly larger,
\* so on equal cell widths the earlier candidate stays.
C10_TieBreak == []C10_BestOfTies /\ [][C10_TieStep]_vars

\* after the iteration over 2x1: 1x2 had been best, both qualify, and 2x1
\* with its strictly wider cell has replaced it
C10_Witness ==
  /\ cg.pc = "loop"
  /\ cg.i = 4
  /\ cg.best = <<2, 1>>
  /\ cg.layout.gap_mm >= 0
  /\ <<1, 2>> \in Qualifying
  /\ FracGT(CellW(<<2, 1>>), CellW(<<1, 2>>))

\* after the iteration over 2x1 with all cell widths equal: 1x2 stays
C10_EqualWidthKept ==
  /\ cg.pc = "loop"
  /\ cg.i = 4
  /\ cg.best = <<1, 2>>
  /\ <<2, 1>> \in Qualifying
  /\ SameWidth(<<2, 1>>, <<1, 2>>)

---------------------------------------------------------------------------
(* Claims about the page compositor (checked under Spec)                   *)

\* The source pages of the documents that open, in list order and, within
\* a document, in native order: the sequence p_0 .. p_{P-1}, as pairs
\* <<path, page number>>.
RECURSIVE SourcePages(_, _)
SourcePages(files, fs) ==
  IF files = <<>>
    THEN <<>>
    ELSE LET path == Head(files)
             n == IF fs[path].ok THEN fs[path].pages ELSE 0
         IN  [k \in 1..n |-> <<path, k - 1>>] \o SourcePages(Tail(files), fs)

\* The cells of the output document in placement order.
RECURSIVE PlacedCells(_)
PlacedCells(out) ==
  IF out = <<>> THEN <<>> ELSE PlacedCells(SubSeq(out, 1, Len(out) - 1)) \o out[Len(out)].cells

AllPages == SourcePages(bd.src_files, bd.fs)
GridSlots == bd.rows * bd.cols
CeilDiv(a, b) == (a + b - 1) \div b
Completed == bd.pc = "returned"
NoEarlyStop == bd.stop_after_pages = <<>>
OpenablePaths == {q \in 1..Len(bd.src_files) : bd.fs[bd.src_files[q]].ok}

\* C1: in a completed build without early stop, source page p_k (k from
\* 0, documents concatenated in list order) lies on output page
\* k div (rows*cols) in slot k mod (rows*cols), at grid row slot div cols
\* and column slot mod cols, and the output holds no other cell.
C1_ConcatenationOrder ==
  (Completed /\ NoEarlyStop) =>
    /\ \A k \in 0..(Len(AllPages) - 1) :
         LET page == k \div GridSlots + 1
             slot == k % GridSlots
         IN  /\ page <= Len(bd.out)
             /\ slot + 1 <= Len(bd.out[page].cells)
             /\ bd.out[page].cells[slot + 1].path = AllPages[k + 1][1]
             /\ bd.out[page].cells[slot + 1].pno = AllPages[k + 1][2]
             /\ bd.out[page].cells[slot + 1].r = slot \div bd.cols
             /\ bd.out[page].cells[slot + 1].c = slot % bd.cols
    /\ Len(PlacedCells(bd.out)) = Len(AllPages)

\* a completed build on a 2x2 grid where the second document starts in the
\* middle of an output page and runs over onto the next
C1_Witness ==
  /\ Completed /\ NoEarlyStop
  /\ bd.rows = 2 /\ bd.cols = 2
  /\ Len(bd.out) = 2
  /\ Len(bd.out[1].cells) = 4
  /\ bd.out[1].cells[2].path # bd.out[1].cells[3].path
  /\ bd.out[1].cells[4].path = bd.out[2].cells[1].path
  /\ bd.out[1].cells[4].r = 1 /\ bd.out[1].cells[4].c = 1

\* C2: in a completed build with draw_page_numbers, output page i of N
\* carries exactly one footer, "i / N".
C2_FooterTotals ==
  (Completed /\ bd.params.draw_page_numbers) =>
    \A i \in 1..Len(bd.out) :
      bd.out[i].footers = <<ToString(i) \o " / " \o ToString(Len(bd.out))>>

\* a completed build with footers on three output pages, the last of them
\* partially filled
C2_Witness ==
  /\ Completed
  /\ bd.params.draw_page_numbers
  /\ Len(bd.out) = 3
  /\ Len(bd.out[3].cells) < GridSlots
  /\ bd.out[3].footers = <<"3 / 3">>

\* C3: an output page never holds more than rows*cols cells and, while no
\* exception is under way, never none; a completed build without early
\* stop over P source pages has ceil(P / (rows*cols)) output pages, all
\* but the last full.
C3_PageCount ==
  /\ \A j \in 1..Len(bd.out) :
       /\ Len(bd.out[j].cells) <= GridSlots
       /\ bd.err = "none" => Len(bd.out[j].cells) >= 1
  /\ (Completed /\ NoEarlyStop) =>
       /\ Len(bd.out) = CeilDiv(Len(AllPages), GridSlots)
       /\ \A j \in 1..(Len(bd.out) - 1) : Len(bd.out[j].cells) = GridSlots

\* a completed build over a zero-page document and three pages on a grid
\* of two slots: two output pages, the second with a single cell
C3_Witness ==
  /\ Completed /\ NoEarlyStop
  /\ GridSlots = 2
  /\ Len(AllPages) = 3
  /\ \E q \in OpenablePaths : bd.fs[bd.src_files[q]].pages = 0
  /\ Len(bd.out) = 2
  /\ Len(bd.out[1].cells) = 2
  /\ Len(bd.out[2].cells) = 1

\* The same call on the list without the paths that do not open.
WithoutUnopenable ==
  BuildCall(SelectSeq(bd.src_files, LAMBDA path : bd.fs[path].ok),
            bd.fs, bd.params, bd.stop_after_pages)

\* C4: a path that does not open never makes the build raise (a build
\* raises only from a page operation or from close), and the output of a
\* completed build is the output of the build on the list without the
\* unopenable paths.
C4_SkipAndContinue ==
  /\ bd.pc = "raised" =>
       bd.err \in {"load_page", "show_pdf_page", "insert_textbox", "close"}
  /\ Completed =>
       LET ref == RunOK(WithoutUnopenable)
       IN  /\ ref.pc = "returned"
           /\ ref.out = bd.out

\* a completed build over three paths, the middle one unopenable, with
\* pages of the first and of the third on the same output page
C4_Witness ==
  /\ Completed
  /\ Len(bd.src_files) = 3
  /\ ~bd.fs[bd.src_files[2]].ok
  /\ Len(bd.out) >= 1
  /\ Len(bd.out[1].cells) >= 2
  /\ bd.out[1].cells[1].path = bd.src_files[1]
  /\ bd.out[1].cells[Len(bd.out[1].cells)].path = bd.src_files[3]
  /\ bd.params.draw_page_numbers /\ bd.params.draw_cell_indices

\* C5: with draw_cell_indices, while no exception is under way, the k-th
\* cell in placement order carries exactly the label k.
C5_CellIndices ==
  (bd.params.draw_cell_indices /\ bd.err = "none") =>
    LET cells == PlacedCells(bd.out)
    IN  \A k \in 1..Len(cells) : cells[k].label = <<ToString(k)>>

\* a completed build whose labels run on across a document boundary and
\* an output-page boundary
C5_Witness ==
  /\ Completed
  /\ bd.params.draw_cell_indices
  /\ Len(bd.out) >= 2
  /\ bd.out[2].cells[1].label = <<ToString(GridSlots + 1)>>
  /\ \E j \in 1..Len(bd.out) : \E s \in 2..Len(bd.out[j].cells) :
       /\ bd.out[j].cells[s].path # bd.out[j].cells[s - 1].path
       /\ bd.out[j].cells[s].pno = 0
       /\ bd.out[j].cells[s].label # <<"1">>

\* C6: a build whose sources contribute no page never raises and never
\* creates an output page; it runs on until it returns, and returns the
\* empty document.
C6_EmptyInput ==
  Len(AllPages) = 0 =>
    /\ bd.pc # "raised"
    /\ bd.out = <<>>
    /\ Completed \/ ENABLED Next

\* a completed build over an unopenable path and a zero-page document,
\* with footers asked for and an early stop given
C6_Witness ==
  /\ Completed
  /\ Len(AllPages) = 0
  /\ bd.out = <<>>
  /\ \E q \in 1..Len(bd.src_files) : ~bd.fs[bd.src_files[q]].ok
  /\ \E q \in OpenablePaths : bd.fs[bd.src_files[q]].pages = 0
  /\ bd.params.draw_page_numbers
  /\ bd.stop_after_pages # <<>>

\* The build has ended, and no page operation raised in it.
Ended == bd.pc \in {"returned", "raised"}
NoPageFailure == bd.err \notin {"load_page", "show_pdf_page", "insert_textbox"}

\* C11: a build given stop_after_pages = k, k >= 0, in which no page
\* operation fails, returns a document of exactly
\* min(k, ceil(P / (rows*cols))) output pages, and each footer in it is
\* "i / N" with N that number of pages.
C11_EarlyStop ==
  (bd.stop_after_pages # <<>> /\ Ended /\ NoPageFailure) =>
    LET n == Min(bd.stop_after_pages[1], CeilDiv(Len(AllPages), GridSlots))
    IN  /\ bd.pc = "returned"
        /\ Len(bd.out) = n
        /\ bd.params.draw_page_numbers =>
             \A i \in 1..Len(bd.out) :
               bd.out[i].footers = <<ToString(i) \o " / " \o ToString(n)>>

---------------------------------------------------------------------------
(* Claims on the content-bounds estimator                                  *)

\* The three colour bytes of pixel <<x, y>> of a pixmap.
PixelAt(pix, p) ==
  [k \in 1..3 |-> pix.samples[(p[2] * pix.width + p[1]) * pix.n + k]]

RasterPixels == {<<x, y>> : x \in 0..(ec.pix.width - 1), y \in 0..(ec.pix.height - 1)}

\* The pixels of the raster whose smallest channel is strictly below the
\* threshold of the call.
DarkPixels ==
  {p \in RasterPixels :
     \E k \in 1..3 : PixelAt(ec.pix, p)[k] < ec.threshold}

ClipReturned == ec.pc = "returned"

\* C12: estimate_content_clip returns exactly the page's rectangle when
\* rasterization raises, when the scan raises, and when no pixel has its
\* smallest channel below the threshold; and it never raises: a call that
\* has not returned can always take its next step.
C12_FailOpen ==
  /\ (ClipReturned /\ (ec.failed # "none" \/ DarkPixels = {})) =>
       ec.result = <<ec.page_rect>>
  /\ ~ClipReturned => ENABLED NextClip

\* A page that is not white, scanned to the end with threshold 0, gave the
\* page's rectangle.
C12_Witness ==
  /\ ClipReturned
  /\ ec.failed = "none"
  /\ ec.threshold = 0
  /\ \E p \in RasterPixels : PixelAt(ec.pix, p) # White
  /\ ec.result = <<ec.page_rect>>

\* C13: for a page with content below the threshold, the rectangle
\* returned lies within the page's rectangle.
C13_Contained ==
  (ClipReturned /\ DarkPixels # {}) =>
    LET r == ec.result[1]
    IN  /\ ec.page_rect.x0 <= r.x0
        /\ ec.page_rect.y0 <= r.y0
        /\ r.x1 <= ec.page_rect.x1
        /\ r.y1 <= ec.page_rect.y1

\* Content in the last column and the first row of the raster: the
\* rectangle returned ends at the page's right and top edges, and is not
\* the whole page.
C13_Witness ==
  /\ ClipReturned
  /\ ec.failed = "none"
  /\ \E p \in DarkPixels : p[1] = ec.pix.width - 1 /\ p[2] = 0
  /\ ec.result[1].x1 = ec.page_rect.x1
  /\ ec.result[1].y0 = ec.page_rect.y0
  /\ ec.result # <<ec.page_rect>>

\* C14: for a page with content below the threshold, scanned to the end,
\* the rectangle returned is the smallest pixel rectangle
\* [xmin, ymin, xmax + 1, ymax + 1] that encloses every such pixel, grown
\* by 2 points on each side, and then cut to the page's rectangle.
C14_TightBox ==
  (ClipReturned /\ ec.failed = "none" /\ DarkPixels # {}) =>
    LET xs == {p[1] : p \in DarkPixels}
        ys == {p[2] : p \in DarkPixels}
        xlo == CHOOSE x \in xs : \A z \in xs : x <= z
        xhi == CHOOSE x \in xs : \A z \in xs : x >= z
        ylo == CHOOSE y \in ys : \A z \in ys : y <= z
        yhi == CHOOSE y \in ys : \A z \in ys : y >= z
        page == ec.page_rect
    IN  ec.result =
          <<[x0 |-> Max(Pt(xlo) - Pt(2), page.x0),
             y0 |-> Max(Pt(ylo) - Pt(2), page.y0),
             x1 |-> Min(Pt(xhi + 1) + Pt(2), page.x1),
             y1 |-> Min(Pt(yhi + 1) + Pt(2), page.y1)]>>

\* Two or more pixels below the threshold and one, not white, that is not
\* below it: the rectangle returned stops short of the page's left and
\* right edges.
C14_Witness ==
  /\ ClipReturned
  /\ ec.failed = "none"
  /\ Cardinality(DarkPixels) >= 2
  /\ \E p \in RasterPixels \ DarkPixels : PixelAt(ec.pix, p) # White
  /\ ec.result[1].x0 > ec.page_rect.x0
  /\ ec.result[1].x1 < ec.page_rect.x1

---------------------------------------------------------------------------
(* Claims on handles, footers, the slot cursor and failures of a build     *)

OpenHandles == {h \in 1..Len(bd.handles) : bd.handles[h].open}

\* C15: when a build has ended, by return or by exception, every source
\* document it opened is closed; and at no time during the build is more
\* than one source document open.
C15_NoHandleOutlives ==
  /\ Ended => OpenHandles = {}
  /\ Cardinality(OpenHandles) <= 1

\* A build that ended with the exception of a page operation, after four
\* or more documents were opened in the two passes.
C15_Witness ==
  /\ bd.pc = "raised"
  /\ bd.err = "load_page"
  /\ Len(bd.handles) >= 4
  /\ OpenHandles = {}

NoFooters(out) == \A i \in 1..Len(out) : out[i].footers = <<>>

\* The build is over on the returning path: it returned, or the return of
\* the early stop waits for the finally clause.
Returning ==
  bd.pc = "returned" \/ (bd.pc = "finally" /\ bd.pending = "return")

\* C18 (states): an output page never carries more than one footer, none
\* when draw_page_numbers is off, and exactly one when it is on and the
\* build returns, after an early stop as after the last document.
C18_Footers ==
  /\ \A i \in 1..Len(bd.out) : Len(bd.out[i].footers) <= 1
  /\ ~bd.params.draw_page_numbers => NoFooters(bd.out)
  /\ (bd.params.draw_page_numbers /\ Returning) =>
       \A i \in 1..Len(bd.out) : Len(bd.out[i].footers) = 1

\* C18 (steps): a step that creates an output page or places a source page
\* starts from a document without any footer.
C18_NoEarlyStamp ==
  (\/ Len(bd'.out) > Len(bd.out)
   \/ Len(PlacedCells(bd'.out)) > Len(PlacedCells(bd.out))) => NoFooters(bd.out)

\* C18: footers are stamped in a second pass, after the last placement of
\* the run, once on each output page when enabled and never when disabled.
C18_TwoPass == []C18_Footers /\ [][C18_NoEarlyStamp]_vars

\* An early stop that left source pages unplaced returned two output
\* pages, each with its footer.
C18_Witness ==
  /\ bd.pc = "returned"
  /\ bd.stop_after_pages # <<>>
  /\ Len(PlacedCells(bd.out)) < Len(AllPages)
  /\ bd.params.draw_page_numbers
  /\ Len(bd.out) = 2
  /\ \A i \in 1..2 : Len(bd.out[i].footers) = 1

\* C19 (states): once the locals are set, 0 <= slot_used <= rows*cols - 1.
C19_Range ==
  bd.pc # "start" => (0 <= bd.slot_used /\ bd.slot_used <= bd.total_slots - 1)

\* C19 (steps): only an iteration of the page loop changes slot_used or
\* the number of output pages; it creates an output page exactly when it
\* has a source page to place and slot_used is 0; a placement moves
\* slot_used on by one, to 0 exactly when that reaches rows*cols; an
\* iteration that places nothing leaves slot_used alone.
C19_Step ==
  LET placing == bd.pc = "page" /\ bd.pno < bd.fs[bd.handles[bd.src].path].pages
      placed == placing /\ bd'.pc # "finally"
  IN  /\ Len(bd'.out) = Len(bd.out) + (IF placing /\ bd.slot_used = 0 THEN 1 ELSE 0)
      /\ placed =>
           bd'.slot_used =
             IF bd.slot_used + 1 = bd.total_slots THEN 0 ELSE bd.slot_used + 1
      /\ (~placed /\ bd.pc # "start") => bd'.slot_used = bd.slot_used

\* C19: the slot cursor stays in range, is carried over document
\* boundaries, and output pages are created and the cursor reset exactly
\* at the page boundary.
C19_SlotCursor == []C19_Range /\ [][C19_Step]_vars

\* The page loop of a third path begins in mid-page, after a path that did
\* not open or had no pages.
C19_Witness ==
  /\ bd.pc = "page"
  /\ bd.pno = 0
  /\ bd.fi = 3
  /\ bd.slot_used > 0
  /\ \E q \in 1..2 : ~bd.fs[bd.src_files[q]].ok \/ bd.fs[bd.src_files[q]].pages = 0

PageErrors == PageFailures \ {"none"}

\* C20 (states): an iteration of the page loop in which load_page,
\* show_pdf_page or the cell index's insert_textbox raises leaves the try
\* block with that exception; a build in which one was raised is in the
\* finally clause or has ended with it, never returned, and has then
\* closed the document whose page failed, once.
C20_NotSkipped ==
  /\ (bd.pc = "page" /\ bd.pno < bd.fs[bd.handles[bd.src].path].pages) =>
       \A fail \in {"load_page", "show_pdf_page"} \cup
                   (IF bd.params.draw_cell_indices THEN {"insert_textbox"} ELSE {}) :
         LET n == PageStep(bd, fail)
         IN  n.pc = "finally" /\ n.pending = "raise" /\ n.err = fail
  /\ bd.err \in PageErrors =>
       /\ bd.pc \in {"finally", "raised"}
       /\ bd.pc = "finally" => (bd.pending = "raise" /\ bd.handles[bd.src].open)
       /\ bd.pc = "raised" =>
            (~bd.handles[bd.src].open /\ bd.handles[bd.src].closes = 1)

\* C20 (steps): the finally clause entered with an exception closes the
\* document and ends the build with the same exception.
C20_Propagates ==
  (bd.pc = "finally" /\ bd.pending = "raise") =>
    /\ bd'.pc = "raised"
    /\ bd'.err = bd.err
    /\ bd'.out = bd.out

\* C20: a failure of a page operation after a successful open ends the
\* build with that error, no document is returned, and the current
\* document is closed before the error reaches the caller.
C20_FailFast == []C20_NotSkipped /\ [][C20_Propagates]_vars

\* The build ended with the error of a cell index, with a document of
\* pages still to come in the list.
C20_Witness ==
  /\ bd.pc = "raised"
  /\ bd.err = "insert_textbox"
  /\ bd.fi < Len(bd.src_files)
  /\ bd.fs[bd.src_files[bd.fi + 1]].ok
  /\ bd.fs[bd.src_files[bd.fi + 1]].pages > 0
  /\ ~bd.handles[bd.src].open

---------------------------------------------------------------------------
(* Claim on the choice of the grid in the compositor                       *)

\* The grid the layout of the call asks for.
LayoutGrid ==
  IF bd.params.layout.auto_readable
    THEN choose_auto_grid(paper_size_pt(bd.params.paper, bd.params.landscape),
                          bd.params.layout)
    ELSE <<bd.params.layout.rows, bd.params.layout.cols>>

\* The call with other fixed rows and cols in its layout.
WithFixed(b, r, c) ==
  [b EXCEPT !.params.layout.rows = r, !.params.layout.cols = c]

\* C16: with auto_readable off the cells are placed on the grid
\* (layout.rows, layout.cols), also where its cells are narrower than
\* min_slide_w_mm; with auto_readable on they are placed on the grid of
\* choose_auto_grid, and a call that differs only in the fixed rows and
\* cols produces the same document.
C16_GridSelection ==
  /\ bd.pc # "start" =>
       /\ <<bd.rows, bd.cols>> = LayoutGrid
       /\ bd.total_slots = LayoutGrid[1] * LayoutGrid[2]
       /\ \A j \in 1..Len(bd.out) : \A k \in 1..Len(bd.out[j].cells) :
            /\ k <= LayoutGrid[1] * LayoutGrid[2]
            /\ bd.out[j].cells[k].r = (k - 1) \div LayoutGrid[2]
            /\ bd.out[j].cells[k].c = (k - 1) % LayoutGrid[2]
  /\ (bd.pc = "start" /\ bd.params.layout.auto_readable) =>
       \A r \in 1..MaxGrid, c \in 1..MaxGrid :
         LET other == RunOK(WithFixed(bd, r, c))
             this == RunOK(bd)
         IN  /\ other.pc = this.pc
             /\ other.out = this.out
             /\ <<other.rows, other.cols>> = <<this.rows, this.cols>>

\* A fixed grid of three columns whose cells are narrower than
\* min_slide_w_mm, used into its third column and second row.
C16_Witness ==
  /\ bd.pc = "returned"
  /\ ~bd.params.layout.auto_readable
  /\ bd.cols = 3
  /\ ~FracGE(bd.cell_w, mm_to_pt(bd.params.layout.min_slide_w_mm))
  /\ Len(bd.out) = 1
  /\ \E k \in 1..Len(bd.out[1].cells) : bd.out[1].cells[k].c = 2
  /\ \E k \in 1..Len(bd.out[1].cells) : bd.out[1].cells[k].r = 1

---------------------------------------------------------------------------
(* Claim on saving                                                         *)

SaveError == <<"warning", "save error">>

\* C17: save_pdf calls out.save at most once, on the first name
\* <base>_<i>.pdf, i in 1..1000, at which no file existed, and no file has
\* that name when save is called; a file that existed stays; when all
\* 1000 names are taken save is not called and a save error is shown; a
\* failure of out.save is followed by a save error message.
C17_NoOverwrite ==
  /\ Len(sv.writes) <= 1
  /\ \A w \in 1..Len(sv.writes) :
       /\ ~sv.writes[w].existed
       /\ sv.writes[w].name \in 1..Tries
       /\ sv.writes[w].name \notin sv.files0
       /\ \A j \in 1..(sv.writes[w].name - 1) : j \in sv.files0
  /\ sv.files0 \subseteq sv.files
  /\ ((1..Tries) \subseteq sv.files0) => sv.writes = <<>>
  /\ (sv.pc = "done" /\ sv.i = Tries) =>
       (sv.writes = <<>> /\ sv.messages = <<SaveError>>)
  /\ sv.save_failed => (sv.pc = "done" /\ sv.messages = <<SaveError>>)

\* The names 1 and 2 were taken: the document was saved as name 3.
C17_Witness ==
  /\ sv.pc = "done"
  /\ sv.files0 = {1, 2}
  /\ sv.writes = <<[name |-> 3, existed |-> FALSE]>>
  /\ sv.messages = <<<<"information", "done">>>>

\* All names were taken: the loop ran out and the error was shown.
C17_AllTaken ==
  /\ sv.pc = "done"
  /\ sv.files0 = 1..Tries
  /\ sv.i = Tries
  /\ sv.writes = <<>>
  /\ sv.messages = <<SaveError>>

---------------------------------------------------------------------------
(* Claim on the number of close() calls a source document receives         *)

\* C21: every source document the build opened receives close() at most
\* once at any time, and exactly once when the build has ended: close() is
\* never called on a document that is already closed.
C21_CloseOnce ==
  \A h \in 1..Len(bd.handles) :
    /\ bd.handles[h].closes <= 1
    /\ Ended => bd.handles[h].closes = 1

---------------------------------------------------------------------------
(* Claim on the results of the grid chooser                                *)

\* The column counts of the candidates whose cell width meets the minimum.
QualifyingCols == {g[2] : g \in Qualifying}

\* The result the column rule gives: by the largest qualifying column
\* count, 1x1 when there is none.
ColumnRule ==
  IF QualifyingCols = {}
    THEN <<1, 1>>
    ELSE LET c == CHOOSE x \in QualifyingCols : \A y \in QualifyingCols : y <= x
         IN  IF c = 1 THEN <<2, 1>> ELSE <<4, c>>

GapNotNegative ==
  /\ cg.layout.gap_mm >= 0
  /\ cg.paper_pt[1] - 2 * mm_to_pt(cg.layout.margin_mm) > 0

\* C22: for gap >= 0 and positive usable width the grid returned is given
\* by the largest column count whose cell width meets the minimum: 2x1,
\* 4x2, 4x3, 4x4 for 1, 2, 3, 4 columns and 1x1 when none qualifies; it is
\* 1x1 only when no candidate qualifies; and it is the same for a paper of
\* the same width and any other height.
C22_ColumnRule ==
  (cg.pc = "returned" /\ GapNotNegative) =>
    /\ cg.best = ColumnRule
    /\ cg.best \in {<<1, 1>>, <<2, 1>>, <<4, 2>>, <<4, 3>>, <<4, 4>>}
    /\ cg.best = <<1, 1>> <=> Qualifying = {}
    /\ \A h_mm \in {10, 500, 2000, 10000} :
         choose_auto_grid(<<cg.paper_pt[1], mm_to_pt(h_mm)>>, cg.layout) = cg.best

\* Three columns meet the minimum and four do not: 4x3 is returned.
C22_Witness ==
  /\ cg.pc = "returned"
  /\ GapNotNegative
  /\ cg.layout.gap_mm > 0
  /\ QualifyingCols = {1, 2, 3}
  /\ cg.best = <<4, 3>>

---------------------------------------------------------------------------
(* Claim on reordering the file list                                       *)

\* The row of an entry in a list.
RowOf(items, e) == CHOOSE k \in 1..Len(items) : items[k] = e

Entries == {lw.items0[k] : k \in 1..Len(lw.items0)}
SelectedEntries == {lw.items0[r + 1] : r \in lw.selected}

\* The entries of E stand in items in the order they had in items0.
SameOrder(E) ==
  \A a \in E, b \in E :
    RowOf(lw.items0, a) < RowOf(lw.items0, b) => RowOf(lw.items, a) < RowOf(lw.items, b)

\* The list is a permutation of what it was.
Permuted ==
  /\ Len(lw.items) = Len(lw.items0)
  /\ {lw.items[k] : k \in 1..Len(lw.items)} = Entries

\* C24: when move_up or move_down has returned, the list is a permutation
\* of what it was, the unselected entries stand in their original order,
\* and so do the selected entries.
C24_OrderKept ==
  lw.pc = "returned" =>
    /\ Permuted
    /\ SameOrder(Entries \ SelectedEntries)
    /\ SameOrder(SelectedEntries)

\* What holds of the code: a permutation that keeps the order of the
\* unselected entries.
C24_Permutation ==
  lw.pc = "returned" => (Permuted /\ SameOrder(Entries \ SelectedEntries))

---------------------------------------------------------------------------
(* Claim on the Create button of the image-to-PDF window                   *)

\* The calls of make_pdf that have started the generation and not ended.
InFlight == {k \in 1..Len(mp.stack) : mp.stack[k].pc \in {"events", "generate", "except", "finally"}}

\* C23: at most one call of make_pdf is between the start of the
\* generation and its end, and the Create button is disabled as long as
\* one is; when no call of make_pdf is under way (none was made, or each
\* has finished, by whatever path) the Create button is enabled and the
\* status text is empty.
C23_OneBuild ==
  /\ Cardinality(InFlight) <= 1
  /\ InFlight # {} => ~mp.enabled
  /\ mp.stack = <<>> => (mp.enabled /\ mp.status = "")

\* A call that ended with an exception from writing the error log, after
\* one that succeeded: the button is enabled and the status empty.
C23_Witness ==
  /\ mp.stack = <<>>
  /\ mp.log = <<"done", "log failed">>
  /\ mp.enabled
  /\ mp.status = ""

=============================================================================
